---- MODULE Spec2Model ----
(***************************************************************************)
(* Model of the AllTrails scraper (src/app/alltrails_scraper.py) and of    *)
(* the tool-call adapter (src/server.py).                                  *)
(*                                                                         *)
(* A fetched page is a small element tree: a sequence of top-level         *)
(* elements in document order, each with a tag, the attributes the         *)
(* selectors look at, its own text, and a sequence of child elements.      *)
(* Texts are strings; the selectors, the substring tests and the regular   *)
(* expressions of the source are operators over them.                      *)
(***************************************************************************)
EXTENDS Integers, Sequences, FiniteSets, TLC

(***************************************************************************)
(* Text primitives (Python str / re as used by the scraper).               *)
(***************************************************************************)
BASE_URL == "https://www.alltrails.com"

Char(s, i) == SubSeq(s, i, i)

Digits == {"0", "1", "2", "3", "4", "5", "6", "7", "8", "9"}

Whitespace == {" "}

UpperLetters == "ABCDEFGHIJKLMNOPQRSTUVWXYZ"

LowerLetters == "abcdefghijklmnopqrstuvwxyz"

\* the lower-case letter of each upper-case letter
LowerOf == [c \in {Char(UpperLetters, k) : k \in 1..26} |->
              Char(LowerLetters, CHOOSE k \in 1..26 : Char(UpperLetters, k) = c)]

\* str.lower() on one character
LowerChar(c) == IF c \in DOMAIN LowerOf THEN LowerOf[c] ELSE c

RECURSIVE Lower(_)
\* str.lower(), one half of the string after the other
Lower(s) ==
    IF Len(s) <= 1 THEN LowerChar(s)
    ELSE Lower(SubSeq(s, 1, Len(s) \div 2)) \o Lower(SubSeq(s, Len(s) \div 2 + 1, Len(s)))

\* s.startswith(p)
StartsWith(s, p) == Len(p) <= Len(s) /\ SubSeq(s, 1, Len(p)) = p

\* does p occur in s at index i
MatchAt(s, i, p) == i >= 1 /\ i + Len(p) - 1 <= Len(s) /\ SubSeq(s, i, i + Len(p) - 1) = p

\* the Python test `p in s`
Contains(s, p) == \E i \in 1..(Len(s) + 1) : MatchAt(s, i, p)

\* re.search of a literal with re.I
ContainsCI(s, p) == Contains(Lower(s), Lower(p))

RECURSIVE Strip(_)
\* str.strip(), as applied by get_text(strip=True) to each text fragment
Strip(s) ==
    IF s = "" THEN ""
    ELSE IF Char(s, 1) \in Whitespace THEN Strip(SubSeq(s, 2, Len(s)))
    ELSE IF Char(s, Len(s)) \in Whitespace THEN Strip(SubSeq(s, 1, Len(s) - 1))
    ELSE s

RECURSIVE Skip(_, _, _)
\* first index >= i of s whose character is not in class (greedy class*)
Skip(s, i, class) ==
    IF i <= Len(s) /\ Char(s, i) \in class THEN Skip(s, i + 1, class) ELSE i

\* \d+\.?\d* at index i: 0 when there is no match, else the index after it
NumberEnd(s, i) ==
    IF ~(i <= Len(s) /\ Char(s, i) \in Digits) THEN 0
    ELSE LET j == Skip(s, i, Digits)
             k == IF MatchAt(s, j, ".") THEN j + 1 ELSE j
         IN  Skip(s, k, Digits)

\* (a1|a2|...) at index i, alternatives tried in order: 0 or the index after
AltEnd(s, i, alts) ==
    IF \E k \in 1..Len(alts) : MatchAt(s, i, alts[k])
    THEN i + Len(alts[CHOOSE k \in 1..Len(alts) :
                        /\ MatchAt(s, i, alts[k])
                        /\ \A h \in 1..(k - 1) : ~MatchAt(s, i, alts[h])])
    ELSE 0

\* \d+\.?\d*\s*(units) at index i: 0 or the index after the match
QuantityEnd(s, i, units) ==
    LET n == NumberEnd(s, i)
    IN  IF n = 0 THEN 0 ELSE AltEnd(s, Skip(s, n, Whitespace), units)

\* re.search: ends[i] is the index after the match at i, 0 for no match at
\* i; the leftmost index with a match, 0 when there is none
Leftmost(ends) ==
    IF \E i \in 1..Len(ends) : ends[i] # 0
    THEN CHOOSE i \in 1..Len(ends) : ends[i] # 0 /\ \A h \in 1..(i - 1) : ends[h] = 0
    ELSE 0

\* the body of a labelled pattern at index j of the lowered text: a quantity
\* with one of body.alts as unit, or one of body.alts alone
BodyEnd(low, j, body) ==
    IF body.quantity THEN QuantityEnd(low, j, body.alts) ELSE AltEnd(low, j, body.alts)

\* re.search(label + r'[:\s]*(body)', text, re.I).group(1), "" for None;
\* low is the lowered text
LabelledGroupIn(text, low, label, body) ==
    LET Start(i) == Skip(low, i + Len(label), {":"} \cup Whitespace)
        End(i) == IF MatchAt(low, i, Lower(label)) THEN BodyEnd(low, Start(i), body) ELSE 0
        at == Leftmost([i \in 1..Len(low) |-> End(i)])
    IN  IF at = 0 THEN "" ELSE SubSeq(text, Start(at), End(at) - 1)

LabelledGroup(text, label, body) == LabelledGroupIn(text, Lower(text), label, body)

(***************************************************************************)
(* extract_distance_and_rating                                             *)
(***************************************************************************)
\* stands for the star glyph of the rating pattern
StarGlyph == "*"

\* re.search(r'(\d+\.?\d*)\s*(mi|km)', text).group(0), "" for None
extract_distance(text) ==
    LET End(i) == QuantityEnd(text, i, <<"mi", "km">>)
        at == Leftmost([i \in 1..Len(text) |-> End(i)])
    IN  IF at = 0 THEN "" ELSE SubSeq(text, at, End(at) - 1)

\* re.search(r'(\d+\.?\d*)\s*(?:stars?|<glyph>)', text).group(1), "" for None
extract_rating(text) ==
    LET End(i) == QuantityEnd(text, i, <<"star", StarGlyph>>)
        at == Leftmost([i \in 1..Len(text) |-> End(i)])
    IN  IF at = 0 THEN "" ELSE SubSeq(text, at, NumberEnd(text, at) - 1)

(***************************************************************************)
(* The parsed tree (the BeautifulSoup API as the scraper uses it).         *)
(***************************************************************************)
\* an element; an absent attribute is the empty string
El(tag, testid, class, href, text, kids) ==
    [tag |-> tag, testid |-> testid, class |-> class, href |-> href,
     name |-> "", content |-> "", text |-> text, kids |-> kids]

\* <meta name=... content=...>
Meta(name, content) ==
    [tag |-> "meta", testid |-> "", class |-> "", href |-> "",
     name |-> name, content |-> content, text |-> "", kids |-> <<>>]

\* Python None for an element
NoElem == El("", "", "", "", "", <<>>)

\* a or b, for find() results (a Tag is always truthy)
OrElse(a, b) == IF a # NoElem THEN a ELSE b

\* the descendants of an element, in document order, each with its parent
Descendants(e) == [i \in 1..Len(e.kids) |-> <<e.kids[i], e>>]

RECURSIVE Nodes(_)
\* every element of a document, in document order, each with its parent
Nodes(doc) ==
    IF doc = <<>> THEN <<>>
    ELSE <<<<Head(doc), NoElem>>>> \o Descendants(Head(doc)) \o Nodes(Tail(doc))

\* a selector: the tag, data-testid, class, name and parent class an element
\* must have ("" for any), the patterns one of which its class must contain
\* in any case, and the text its href must contain
Css(tag, testid, class) ==
    [tag |-> tag, testid |-> testid, class |-> class, name |-> "",
     up_class |-> "", class_re |-> {}, href_re |-> ""]

\* does element e with parent up match the selector
Matches(sel, e, up) ==
    /\ sel.tag = "" \/ e.tag = sel.tag
    /\ sel.testid = "" \/ e.testid = sel.testid
    /\ sel.class = "" \/ e.class = sel.class
    /\ sel.name = "" \/ e.name = sel.name
    /\ sel.up_class = "" \/ up.class = sel.up_class
    /\ sel.class_re = {} \/ \E pat \in sel.class_re : ContainsCI(e.class, pat)
    /\ sel.href_re = "" \/ Contains(e.href, sel.href_re)

\* select() / find_all(): the elements among nodes that match, in document order
Select(nodes, sel) ==
    LET hits == SelectSeq(nodes, LAMBDA n : Matches(sel, n[1], n[2]))
    IN  [i \in 1..Len(hits) |-> hits[i][1]]

\* select_one() / find(): the first match or None
SelectOne(nodes, sel) ==
    LET found == Select(nodes, sel)
    IN  IF found = <<>> THEN NoElem ELSE found[1]

\* the text nodes below an element, in document order
Fragments(e) ==
    SelectSeq(<<e.text>> \o [i \in 1..Len(e.kids) |-> e.kids[i].text],
              LAMBDA t : t # "")

RECURSIVE JoinRange(_, _, _)
\* "".join(parts[lo..hi]), one half of the range after the other
JoinRange(parts, lo, hi) ==
    IF lo > hi THEN ""
    ELSE IF lo = hi THEN parts[lo]
    ELSE JoinRange(parts, lo, (lo + hi) \div 2) \o JoinRange(parts, (lo + hi) \div 2 + 1, hi)

\* "".join(parts)
Join(parts) == JoinRange(parts, 1, Len(parts))

\* element.get_text()
GetText(e) == Join(Fragments(e))

\* element.get_text(strip=True): fragments stripped, empty ones dropped
GetTextStrip(e) ==
    Join([i \in 1..Len(Fragments(e)) |-> Strip(Fragments(e)[i])])

\* soup.get_text()
PageText(doc) == Join([i \in 1..Len(doc) |-> GetText(doc[i])])

\* BASE_URL + href if href.startswith("/") else href
AbsoluteUrl(href) == IF StartsWith(href, "/") THEN BASE_URL \o href ELSE href

(***************************************************************************)
(* search_trails_in_park                                                   *)
(***************************************************************************)
\* the limit of the anchor fallback, trail_links[:20]
MaxTrailLinks == 20

\* the shortest name the anchor fallback rejects, len(name) > 3
MinNameLen == 3

\* the longest card text rejected as a summary, len(summary) > 20
MinCardSummaryLen == 20

CardSel1 == Css("div", "trail-card", "")

CardSel2 == Css("div", "", "trail-card")

CardSel3 == Css("a", "trail-card-title-link", "")

CardSel4 == Css("", "", "styles-module__container___3ZXxx")

card_selectors == <<CardSel1, CardSel2, CardSel3, CardSel4>>

RECURSIVE FirstSelection(_, _)
\* the card discovery loop: the matches of the first selector that has any
FirstSelection(nodes, sels) ==
    IF sels = <<>> THEN <<>>
    ELSE IF Select(nodes, Head(sels)) # <<>> THEN Select(nodes, Head(sels))
    ELSE FirstSelection(nodes, Tail(sels))

\* the card discovery loop without its break: the matches of the last selector
FindCards_NoBreak(doc) == Select(Nodes(doc), card_selectors[Len(card_selectors)])

\* cards after the discovery loop of the page
FindCards(doc) == FirstSelection(Nodes(doc), card_selectors)

\* soup.find_all("a", href=re.compile(r"/trail/"))
TrailLinkSel == [Css("a", "", "") EXCEPT !.href_re = "/trail/"]

TrailLinks(doc) == Select(Nodes(doc), TrailLinkSel)

\* the slice seq[:n]
Take(seq, n) == SubSeq(seq, 1, IF Len(seq) < n THEN Len(seq) ELSE n)

\* the record the anchor fallback builds for one link
LinkRecord(link) ==
    [name |-> GetTextStrip(link), url |-> AbsoluteUrl(link.href),
     summary |-> "", difficulty |-> "", length |-> "", rating |-> ""]

\* name and len(name) > 3
IsNamed(link) == Len(GetTextStrip(link)) > MinNameLen

\* the loop over the links the fallback looks at
LinkLoop(links) ==
    [i \in 1..Len(SelectSeq(links, IsNamed)) |-> LinkRecord(SelectSeq(links, IsNamed)[i])]

\* the anchor fallback without the [:20] slice
AnchorFallback_NoLimit(doc) == LinkLoop(TrailLinks(doc))

\* the anchor fallback: the first 20 trail links, those with a name kept
AnchorFallback(doc) == LinkLoop(Take(TrailLinks(doc), MaxTrailLinks))

\* the locators of a card's name element, in order
TitleLinkSel == Css("a", "trail-card-title-link", "")

H3Sel == Css("h3", "", "")

NameSpanSel == [Css("span", "", "") EXCEPT !.class_re = {"name", "title"}]

name_locators == <<TitleLinkSel, H3Sel, TrailLinkSel, NameSpanSel>>

RECURSIVE FirstFound(_, _)
\* find(a) or find(b) or ...: the element of the first locator that finds one
FirstFound(nodes, sels) ==
    IF sels = <<>> THEN NoElem
    ELSE OrElse(SelectOne(nodes, Head(sels)), FirstFound(nodes, Tail(sels)))

NameElem(card) == FirstFound(Descendants(card), name_locators)

\* the URL of the link found in the card, "" for None
LinkUrl(link_elem) == IF link_elem # NoElem THEN AbsoluteUrl(link_elem.href) ELSE ""

\* trail_url of a card, "" for None
CardUrl(card, name_elem) ==
    IF name_elem.tag = "a" /\ name_elem.href # ""
    THEN AbsoluteUrl(name_elem.href)
    ELSE LinkUrl(SelectOne(Descendants(card), TrailLinkSel))

\* the locators of a card's difficulty element, in order
DifficultySpanSel == [Css("span", "", "") EXCEPT !.class_re = {"difficulty"}]

DifficultyDivSel == [Css("div", "", "") EXCEPT !.class_re = {"difficulty"}]

difficulty_locators == <<DifficultySpanSel, DifficultyDivSel>>

\* text=re.compile(r"Easy|Moderate|Hard", re.I)
IsDifficultyText(t) ==
    \E word \in {"easy", "moderate", "hard"} : Contains(Lower(t), word)

\* the difficulty of a card whose difficulty locators found elem
DifficultyOf(elem, texts) ==
    IF elem # NoElem THEN GetTextStrip(elem)
    ELSE IF texts # <<>> THEN Strip(texts[1])
    ELSE ""

CardDifficulty(card) ==
    DifficultyOf(FirstFound(Descendants(card), difficulty_locators),
                 SelectSeq(Fragments(card), IsDifficultyText))

\* summary_selectors of a card, in order
CardSummarySel1 == Css("div", "", "styles-module__text___1Jt3Z")

CardSummarySel2 == Css("p", "trail-card-description", "")

CardSummarySel3 == Css("", "", "trail-description")

CardSummarySel4 == Css("p", "", "")

card_summary_selectors ==
    <<CardSummarySel1, CardSummarySel2, CardSummarySel3, CardSummarySel4>>

RECURSIVE CardSummaryLoop(_, _, _)
\* the summary loop of a card: summary is the value assigned so far
CardSummaryLoop(nodes, sels, summary) ==
    IF sels = <<>> THEN summary
    ELSE IF SelectOne(nodes, Head(sels)) = NoElem
    THEN CardSummaryLoop(nodes, Tail(sels), summary)
    ELSE IF Len(GetTextStrip(SelectOne(nodes, Head(sels)))) > MinCardSummaryLen
    THEN GetTextStrip(SelectOne(nodes, Head(sels)))
    ELSE CardSummaryLoop(nodes, Tail(sels), GetTextStrip(SelectOne(nodes, Head(sels))))

CardSummary(card) == CardSummaryLoop(Descendants(card), card_summary_selectors, "")

\* the trail_data of a card
TrailData(card, name, trail_url) ==
    [name |-> name, url |-> trail_url,
     summary |-> CardSummary(card),
     difficulty |-> CardDifficulty(card),
     length |-> extract_distance(GetText(card)),
     rating |-> extract_rating(GetText(card))]

\* the card loop body without `if not trail_url: continue`
CardRecord_NoUrlCheck(card, name_elem) ==
    IF name_elem = NoElem THEN <<>>
    ELSE IF GetTextStrip(name_elem) = "" THEN <<>>
    ELSE <<TrailData(card, GetTextStrip(name_elem), CardUrl(card, name_elem))>>

\* the card loop body once name_elem is found: the records the card
\* contributes (none or one)
CardRecord(card, name_elem) ==
    IF name_elem = NoElem THEN <<>>
    ELSE IF GetTextStrip(name_elem) = "" THEN <<>>
    ELSE IF CardUrl(card, name_elem) = "" THEN <<>>
    ELSE <<TrailData(card, GetTextStrip(name_elem), CardUrl(card, name_elem))>>

ProcessCard(card) == CardRecord(card, NameElem(card))

RECURSIVE ProcessCards(_, _, _)
\* the card loop; a card whose processing raises is skipped
ProcessCards(cards, i, raising) ==
    IF i > Len(cards) THEN <<>>
    ELSE (IF i \in raising THEN <<>> ELSE ProcessCard(cards[i]))
         \o ProcessCards(cards, i + 1, raising)

\* the outcomes of requests.get + raise_for_status that raise RequestException
FetchFailures == {"connection_error", "timeout", "http_error"}

\* the part of the try body that works on the page
ExtractTrails(cards, env) ==
    IF cards = <<>> THEN AnchorFallback(env.doc)
    ELSE ProcessCards(cards, 1, env.raising)

\* the try body of search_trails_in_park: env is what the call meets (the
\* fetch outcome, an exception outside the card loop, the page, the cards
\* whose processing raises)
SearchTry(env) ==
    IF env.fetch \in FetchFailures THEN [exc |-> "RequestException", value |-> <<>>]
    ELSE IF env.parse_error THEN [exc |-> "Exception", value |-> <<>>]
    ELSE [exc |-> "", value |-> ExtractTrails(FindCards(env.doc), env)]

\* the except clauses of search_trails_in_park without `except Exception`
SearchExcept_Uncaught(try) ==
    IF try.exc = "RequestException" THEN [raised |-> FALSE, value |-> <<>>]
    ELSE IF try.exc = "Exception" THEN [raised |-> TRUE, value |-> <<>>]
    ELSE [raised |-> FALSE, value |-> try.value]

\* the except clauses of search_trails_in_park
SearchExcept(try) ==
    IF try.exc = "RequestException" THEN [raised |-> FALSE, value |-> <<>>]
    ELSE IF try.exc = "Exception" THEN [raised |-> FALSE, value |-> <<>>]
    ELSE [raised |-> FALSE, value |-> try.value]

search_trails_in_park(park_slug, env) == SearchExcept(SearchTry(env))

(***************************************************************************)
(* get_trail_by_slug                                                       *)
(***************************************************************************)
\* the longest page text rejected as a summary, len(summary) > 50
MinSummaryLen == 50

TitleSel1 == Css("h1", "trail-title", "")

TitleSel2 == Css("h1", "", "styles-module__title___1BPJy")

TitleSel3 == Css("h1", "", "")

TitleSel4 == Css("", "trail-name", "")

title_selectors == <<TitleSel1, TitleSel2, TitleSel3, TitleSel4>>

RECURSIVE TitleLoop(_, _)
\* the title loop: the first element found ends it; "" stands for None as
\* well as for an empty text
TitleLoop(nodes, sels) ==
    IF sels = <<>> THEN ""
    ELSE IF SelectOne(nodes, Head(sels)) # NoElem
    THEN GetTextStrip(SelectOne(nodes, Head(sels)))
    ELSE TitleLoop(nodes, Tail(sels))

PageTitle(doc) == TitleLoop(Nodes(doc), title_selectors)

SummarySel1 == Css("", "trail-description", "")

SummarySel2 == Css("div", "", "styles-module__text___1Jt3Z")

SummarySel3 == Css("", "", "trail-description")

SummarySel4 == [Css("meta", "", "") EXCEPT !.name = "description"]

summary_selectors == <<SummarySel1, SummarySel2, SummarySel3, SummarySel4>>

RECURSIVE SummaryLoop(_, _, _)
\* the summary loop of a trail page: summary is the value assigned so far
SummaryLoop(nodes, sels, summary) ==
    IF sels = <<>> THEN summary
    ELSE IF SelectOne(nodes, Head(sels)) = NoElem
    THEN SummaryLoop(nodes, Tail(sels), summary)
    ELSE IF Head(sels).tag = "meta"
    THEN SelectOne(nodes, Head(sels)).content
    ELSE IF Len(GetTextStrip(SelectOne(nodes, Head(sels)))) > MinSummaryLen
    THEN GetTextStrip(SelectOne(nodes, Head(sels)))
    ELSE SummaryLoop(nodes, Tail(sels), GetTextStrip(SelectOne(nodes, Head(sels))))

PageSummary(doc) == SummaryLoop(Nodes(doc), summary_selectors, "")

\* the stats dict: a function from the keys set so far
NoStats == [k \in {} |-> ""]

Put(stats, key, value) ==
    [k \in (DOMAIN stats) \cup {key} |-> IF k = key THEN value ELSE stats[k]]

Get(stats, key) == IF key \in DOMAIN stats THEN stats[key] ELSE ""

StatSel1 == Css("", "trail-length", "")

StatSel2 == Css("", "trail-elevation", "")

StatSel3 == Css("", "trail-difficulty", "")

StatSel4 == Css("span", "", "css-1d3z3hw")

StatSel5 == [Css("span", "", "") EXCEPT !.up_class = "trail-stats"]

stat_selectors == <<StatSel1, StatSel2, StatSel3, StatSel4, StatSel5>>

RECURSIVE Selections(_, _)
\* the elements the stat loops visit, in the order they visit them
Selections(nodes, sels) ==
    IF sels = <<>> THEN <<>>
    ELSE Select(nodes, Head(sels)) \o Selections(nodes, Tail(sels))

StatElements(doc) == Selections(Nodes(doc), stat_selectors)

\* ("ft" in text or "m" in text) and "gain" in text.lower()
IsElevationText_GainRequired(text) ==
    (Contains(text, "ft") \/ Contains(text, "m")) /\ Contains(Lower(text), "gain")

\* "ft" in text or "m" in text and "gain" in text.lower()
IsElevationText(text) ==
    Contains(text, "ft") \/ (Contains(text, "m") /\ Contains(Lower(text), "gain"))

\* the body of the inner stat loop
StatStep(stats, text) ==
    IF Contains(text, "mi") \/ Contains(text, "km") THEN Put(stats, "length", text)
    ELSE IF IsElevationText(text) THEN Put(stats, "elevation_gain", text)
    ELSE stats

RECURSIVE StatLoop(_, _, _)
\* the stat loops over elems[i..]
StatLoop(elems, i, stats) ==
    IF i > Len(elems) THEN stats
    ELSE StatLoop(elems, i + 1, StatStep(stats, GetTextStrip(elems[i])))

\* Method 1: the stats found in stat elements
Phase1Stats(doc) == StatLoop(StatElements(doc), 1, NoStats)

\* (\d+\.?\d*\s*(?:mi|km|miles|kilometers)) under re.I
LengthBody == [quantity |-> TRUE, alts |-> <<"mi", "km", "miles", "kilometers">>]

\* (\d+\.?\d*\s*(?:ft|feet|m|meters)) under re.I
ElevationBody == [quantity |-> TRUE, alts |-> <<"ft", "feet", "m", "meters">>]

\* (Easy|Moderate|Hard) under re.I
DifficultyBody == [quantity |-> FALSE, alts |-> <<"easy", "moderate", "hard">>]

\* (Out & back|Loop|Point to point) under re.I
RouteBody == [quantity |-> FALSE, alts |-> <<"out & back", "loop", "point to point">>]

\* the labelled patterns of Method 2 and of the fields after it
text_patterns ==
    [length |-> [label |-> "Length", body |-> LengthBody],
     elevation_gain |-> [label |-> "Elevation", body |-> ElevationBody],
     difficulty |-> [label |-> "Difficulty", body |-> DifficultyBody],
     route_type |-> [label |-> "Route type", body |-> RouteBody]]

\* what each labelled pattern captures in the page text, "" for no match
TextMatches(page_text) ==
    [k \in DOMAIN text_patterns |->
        LabelledGroup(page_text, text_patterns[k].label, text_patterns[k].body)]

\* a Method 2 assignment without its `not in stats` test
FillStat_Overwrite(stats, key, match) ==
    IF match # "" THEN Put(stats, key, match) ELSE stats

\* a Method 2 assignment: the match fills the stat only when the key is not
\* in stats
FillStat(stats, key, match) ==
    IF match # "" /\ key \notin DOMAIN stats THEN Put(stats, key, match) ELSE stats

\* Method 2
Phase2Stats(stats, matches) ==
    FillStat(FillStat(stats, "length", matches.length),
             "elevation_gain", matches.elevation_gain)

RatingSel1 == Css("", "trail-rating", "")

RatingSel2 == Css("", "", "reviewRating")

RatingSel3 == Css("", "", "rating-display")

rating_selectors == <<RatingSel1, RatingSel2, RatingSel3>>

\* re.search(r'(\d+\.?\d*)', rating_text).group(1), "" for None
FirstNumber(text) ==
    LET End(i) == NumberEnd(text, i)
        at == Leftmost([i \in 1..Len(text) |-> End(i)])
    IN  IF at = 0 THEN "" ELSE SubSeq(text, at, End(at) - 1)

RECURSIVE RatingLoop(_, _)
\* the rating loop: an element with a number in its text ends it
RatingLoop(nodes, sels) ==
    IF sels = <<>> THEN ""
    ELSE IF SelectOne(nodes, Head(sels)) # NoElem
            /\ FirstNumber(GetTextStrip(SelectOne(nodes, Head(sels)))) # ""
    THEN FirstNumber(GetTextStrip(SelectOne(nodes, Head(sels))))
    ELSE RatingLoop(nodes, Tail(sels))

PageRating(doc) == RatingLoop(Nodes(doc), rating_selectors)

\* the URL of a trail page
TrailUrl(slug) == BASE_URL \o "/trail/" \o slug

\* the URL of a park page
ParkUrl(park_slug) == BASE_URL \o "/parks/" \o park_slug

\* the title without the `or f"Trail {slug}"` default
TitleOrDefault_NoDefault(title, slug) == title

\* title or f"Trail {slug}"
TitleOrDefault(title, slug) == IF title # "" THEN title ELSE "Trail " \o slug

\* the record get_trail_by_slug returns for a page
TrailRecord(slug, doc, stats, matches) ==
    [title |-> TitleOrDefault(PageTitle(doc), slug),
     summary |-> PageSummary(doc),
     length |-> Get(stats, "length"),
     elevation_gain |-> Get(stats, "elevation_gain"),
     route_type |-> matches.route_type,
     difficulty |-> matches.difficulty,
     rating |-> PageRating(doc),
     url |-> TrailUrl(slug),
     stats |-> stats]

\* the part of the try body that works on the page
ExtractTrail(slug, doc, matches) ==
    TrailRecord(slug, doc, Phase2Stats(Phase1Stats(doc), matches), matches)

\* the try body of get_trail_by_slug
DetailTry(slug, env) ==
    IF env.fetch \in FetchFailures
    THEN [exc |-> "RequestException", message |-> env.fetch]
    ELSE IF env.parse_error
    THEN [exc |-> "Exception", message |-> "parse_error"]
    ELSE [exc |-> "", value |-> ExtractTrail(slug, env.doc, TextMatches(PageText(env.doc)))]

\* the except clauses of get_trail_by_slug without `except Exception`
DetailExcept_Uncaught(slug, try) ==
    IF try.exc = "RequestException"
    THEN [raised |-> FALSE,
          value |-> [title |-> "", summary |-> "Error fetching trail: " \o try.message,
                     url |-> TrailUrl(slug)]]
    ELSE IF try.exc = "Exception"
    THEN [raised |-> TRUE, value |-> <<>>]
    ELSE [raised |-> FALSE, value |-> try.value]

\* the except clauses of get_trail_by_slug
DetailExcept(slug, try) ==
    IF try.exc = "RequestException"
    THEN [raised |-> FALSE,
          value |-> [title |-> "", summary |-> "Error fetching trail: " \o try.message,
                     url |-> TrailUrl(slug)]]
    ELSE IF try.exc = "Exception"
    THEN [raised |-> FALSE,
          value |-> [title |-> "", summary |-> "Error parsing trail: " \o try.message,
                     url |-> TrailUrl(slug)]]
    ELSE [raised |-> FALSE, value |-> try.value]

get_trail_by_slug(slug, env) == DetailExcept(slug, DetailTry(slug, env))

(***************************************************************************)
(* handle_call_tool (src/server.py)                                        *)
(***************************************************************************)
\* trails[:15]
MaxListed == 15

\* trail['summary'][:80]
MaxSummaryShown == 80

\* the lines of one listed trail
TrailLines(i, trail) ==
    <<ToString(i) \o ". **" \o trail.name \o "**">>
    \o (IF trail.difficulty # "" THEN <<"   - Difficulty: " \o trail.difficulty>> ELSE <<>>)
    \o (IF trail.length # "" THEN <<"   - Length: " \o trail.length>> ELSE <<>>)
    \o (IF trail.rating # "" THEN <<"   - Rating: " \o trail.rating>> ELSE <<>>)
    \o (IF trail.summary # ""
        THEN <<"   - Summary: " \o
               (IF Len(trail.summary) > MaxSummaryShown
                THEN SubSeq(trail.summary, 1, MaxSummaryShown) \o "..."
                ELSE trail.summary)>>
        ELSE <<>>)
    \o <<"   - URL: " \o trail.url, "">>

RECURSIVE ListingLines(_, _)
ListingLines(trails, i) ==
    IF i > Len(trails) \/ i > MaxListed THEN <<>>
    ELSE TrailLines(i, trails[i]) \o ListingLines(trails, i + 1)

\* the search_trails branch: ret is what search_trails_in_park did
SearchReply(park, ret) ==
    IF ret.raised THEN <<"Error: ">>
    ELSE IF ret.value = <<>>
    THEN <<"No trails found for park: " \o park \o ". Please check the park slug format.">>
    ELSE <<"Found " \o ToString(Len(ret.value)) \o " trails in " \o park \o ":", "">>
         \o ListingLines(ret.value, 1)
         \o (IF Len(ret.value) > MaxListed
             THEN <<"... and " \o ToString(Len(ret.value) - MaxListed) \o " more trails.">>
             ELSE <<>>)

\* trail.get(key)
Field(trail, key) == IF key \in DOMAIN trail THEN trail[key] ELSE ""

\* an optional line of the details reply
DetailLine(label, trail, key) ==
    IF Field(trail, key) # "" THEN <<label \o Field(trail, key)>> ELSE <<>>

\* the get_trail_details branch: ret is what get_trail_by_slug did
DetailsReply(slug, ret) ==
    IF ret.raised THEN <<"Error: ">>
    ELSE IF Field(ret.value, "title") = ""
    THEN <<"Trail not found for slug: " \o slug \o ". Please check the trail slug.">>
    ELSE <<"# " \o ret.value.title, "">>
         \o DetailLine("**Length:** ", ret.value, "length")
         \o DetailLine("**Elevation Gain:** ", ret.value, "elevation_gain")
         \o DetailLine("**Route Type:** ", ret.value, "route_type")
         \o DetailLine("**Difficulty:** ", ret.value, "difficulty")
         \o DetailLine("**Rating:** ", ret.value, "rating")
         \o <<"**URL:** " \o ret.value.url, "">>
         \o (IF Field(ret.value, "summary") # ""
             THEN <<"**Description:**", ret.value.summary>> ELSE <<>>)

(***************************************************************************)
(* The pages and failures a call can meet.                                 *)
(***************************************************************************)
\* the most top-level elements of a listing page
MaxListingElems == 2

\* the most top-level elements of a trail page
MaxDetailElems == 2

\* the most links of a navigation block
MaxLinks == 22

Leaf(tag, testid, class, href, text) == El(tag, testid, class, href, text, <<>>)

\* a card with a title link, a difficulty badge, a description and stats
FullCard ==
    El("div", "trail-card", "", "", "",
       <<Leaf("a", "trail-card-title-link", "", "/trail/us/tn/alum-cave", "Alum Cave Trail"),
         Leaf("span", "", "difficulty", "", " Hard "),
         Leaf("p", "", "", "", "Steep climb to bluffs with wide views"),
         Leaf("span", "", "", "", "4.4 mi 4.5 stars")>>)

\* a legacy card: a heading, an icon link, a stat as its only paragraph
LegacyCard ==
    El("div", "", "trail-card", "", "Easy ",
       <<Leaf("h3", "", "", "", "Short Walk"),
         Leaf("a", "", "", "/trail/short-walk", ""),
         Leaf("p", "", "", "", "0.5 km")>>)

\* a card with a name and no link
NoLinkCard ==
    El("div", "trail-card", "", "", "",
       <<Leaf("span", "", "TrailName", "", "No Link Here"),
         Leaf("p", "", "", "", "A quiet path along the river bank")>>)

\* a card whose title link has no visible text
NoNameCard ==
    El("div", "trail-card", "", "", "",
       <<Leaf("a", "trail-card-title-link", "", "/trail/blank", "  ")>>)

\* a title link that is itself the card
BareTitleLink == Leaf("a", "trail-card-title-link", "", "/trail/bare", "Bare Link Trail")

\* a container card with an external link and a short text before the long one
ContainerCard ==
    El("div", "", "styles-module__container___3ZXxx", "", "",
       <<Leaf("h3", "", "", "", "Ridge Loop"),
         Leaf("a", "", "", "https://example.org/trail/ridge", "View"),
         Leaf("div", "", "styles-module__text___1Jt3Z", "", "Moderate"),
         Leaf("p", "", "", "", "A long ridge walk over open meadows")>>)

PlainLink == Leaf("a", "", "", "/trail/plain", "Plain Trail")

ShortLink == Leaf("a", "", "", "/trail/map", "Map")

ExternalLink == Leaf("a", "", "", "https://example.org/trail/ext", " External ")

Paragraph == Leaf("p", "", "", "", "Welcome to the park")

ListingElems ==
    {FullCard, LegacyCard, NoLinkCard, NoNameCard, BareTitleLink, ContainerCard,
     PlainLink, ShortLink, ExternalLink, Paragraph}

\* a navigation block of n trail links; every period-th one has a short text
NavOf(n, period) ==
    El("nav", "", "", "", "",
       [i \in 1..n |->
          Leaf("a", "", "", "/trail/t" \o ToString(i),
               IF period > 0 /\ i % period = 0 THEN "Map" ELSE "Trail " \o ToString(i))])

ShortPeriods == {0, 2, 3}

\* all sequences over elems of length at most n
SeqsUpTo(elems, n) == UNION {[1..k -> elems] : k \in 0..n}

ListingDocs ==
    SeqsUpTo(ListingElems, MaxListingElems)
    \cup {<<NavOf(n, period)>> : n \in 1..MaxLinks, period \in ShortPeriods}

LongText == "A long climb through old forest to open bluffs and wide views"

DetailElems ==
    {Leaf("h1", "trail-title", "", "", "Alum Cave Trail"),
     Leaf("h1", "trail-title", "", "", " "),
     Leaf("h1", "", "", "", "Big Loop"),
     Leaf("span", "trail-name", "", "", "Named Trail"),
     Leaf("div", "trail-description", "", "", "Short blurb"),
     Leaf("div", "", "trail-description", "", LongText),
     Meta("description", "Meta text about the trail"),
     Leaf("span", "trail-length", "", "", "4.4 mi"),
     Leaf("span", "trail-elevation", "", "", "1,200 ft"),
     Leaf("span", "", "css-1d3z3hw", "", "Elevation gain 300 m"),
     El("div", "", "trail-stats", "", "",
        <<Leaf("span", "", "", "", "Moderate"), Leaf("span", "", "", "", "Peak 900 m")>>),
     Leaf("p", "", "", "", "Length: 5 miles Elevation: 900 feet Difficulty: Hard Route type: Loop"),
     Leaf("span", "", "reviewRating", "", "4.5 stars"),
     Leaf("div", "trail-rating", "", "", "No ratings")}

DetailDocs == SeqsUpTo(DetailElems, MaxDetailElems)

\* what a call meets: a failed fetch, an exception after the fetch, or a page
FailedFetches ==
    {[fetch |-> f, parse_error |-> FALSE, doc |-> <<>>, raising |-> {}] : f \in FetchFailures}

ParseErrors(docs) ==
    {[fetch |-> "ok", parse_error |-> TRUE, doc |-> d, raising |-> {}] :
        d \in {x \in docs : Len(x) <= 1}}

\* a page of a park; at most one of its cards raises while it is processed
ListingPages ==
    UNION {{[fetch |-> "ok", parse_error |-> FALSE, doc |-> d, raising |-> r] :
              r \in {{}} \cup {{i} : i \in 1..Len(FindCards(d))}} : d \in ListingDocs}

DetailPages ==
    {[fetch |-> "ok", parse_error |-> FALSE, doc |-> d, raising |-> {}] : d \in DetailDocs}

ListingEnvs == FailedFetches \cup ParseErrors(ListingDocs) \cup ListingPages

DetailEnvs == FailedFetches \cup ParseErrors(DetailDocs) \cup DetailPages

Parks == {"", "us/tennessee/great-smoky-mountains-national-park"}

Slugs == {"", "us/tennessee/alum-cave-trail"}

ToolNames == {"search_trails", "get_trail_details", "list_parks"}

(***************************************************************************)
(* The server: one call at a time, each on a freshly fetched page.         *)
(***************************************************************************)
VARIABLES pc, call, env, ret, reply

vars == <<pc, call, env, ret, reply>>

NoCall == [fn |-> "", via |-> "", arg |-> "", url |-> ""]

NoEnv == [fetch |-> "", parse_error |-> FALSE, doc |-> <<>>, raising |-> {}]

NoRet == [raised |-> FALSE, value |-> <<>>]

Init ==
    /\ pc = "idle"
    /\ call = NoCall
    /\ env = NoEnv
    /\ ret = NoRet
    /\ reply = <<>>

\* a direct call of search_trails_in_park
SearchTrailsInPark ==
    /\ pc = "idle"
    /\ \E park \in Parks, e \in ListingEnvs :
        /\ pc' = "returned"
        /\ call' = [fn |-> "search_trails_in_park", via |-> "direct", arg |-> park,
                    url |-> ParkUrl(park)]
        /\ env' = e
        /\ ret' = search_trails_in_park(park, e)
        /\ reply' = <<>>

\* a direct call of get_trail_by_slug
GetTrailBySlug ==
    /\ pc = "idle"
    /\ \E slug \in Slugs, e \in DetailEnvs :
        /\ pc' = "returned"
        /\ call' = [fn |-> "get_trail_by_slug", via |-> "direct", arg |-> slug,
                    url |-> TrailUrl(slug)]
        /\ env' = e
        /\ ret' = get_trail_by_slug(slug, e)
        /\ reply' = <<>>

\* handle_call_tool("search_trails", {"park": park})
CallSearchTrails ==
    /\ pc = "idle"
    /\ \E park \in Parks, e \in ListingEnvs :
        /\ pc' = "returned"
        /\ IF park = ""
           THEN /\ call' = [fn |-> "", via |-> "tool", arg |-> park, url |-> ""]
                /\ env' = NoEnv
                /\ ret' = NoRet
                /\ reply' = <<"Park parameter is required">>
           ELSE /\ call' = [fn |-> "search_trails_in_park", via |-> "tool", arg |-> park,
                            url |-> ParkUrl(park)]
                /\ env' = e
                /\ \E trails \in {search_trails_in_park(park, e)} :
                       ret' = trails /\ reply' = SearchReply(park, trails)

\* handle_call_tool("get_trail_details", {"slug": slug})
CallGetTrailDetails ==
    /\ pc = "idle"
    /\ \E slug \in Slugs, e \in DetailEnvs :
        /\ pc' = "returned"
        /\ IF slug = ""
           THEN /\ call' = [fn |-> "", via |-> "tool", arg |-> slug, url |-> ""]
                /\ env' = NoEnv
                /\ ret' = NoRet
                /\ reply' = <<"Slug parameter is required">>
           ELSE /\ call' = [fn |-> "get_trail_by_slug", via |-> "tool", arg |-> slug,
                            url |-> TrailUrl(slug)]
                /\ env' = e
                /\ \E trail \in {get_trail_by_slug(slug, e)} :
                       ret' = trail /\ reply' = DetailsReply(slug, trail)

\* handle_call_tool with a name that is no tool
CallUnknownTool ==
    /\ pc = "idle"
    /\ \E name \in ToolNames \ {"search_trails", "get_trail_details"} :
        /\ pc' = "returned"
        /\ call' = [fn |-> "", via |-> "tool", arg |-> name, url |-> ""]
        /\ env' = NoEnv
        /\ ret' = NoRet
        /\ reply' = <<"Unknown tool: " \o name>>

\* the call is over; nothing of it is kept
Done ==
    /\ pc = "returned"
    /\ pc' = "idle"
    /\ call' = NoCall
    /\ env' = NoEnv
    /\ ret' = NoRet
    /\ reply' = <<>>

Next ==
    \/ SearchTrailsInPark
    \/ GetTrailBySlug
    \/ CallSearchTrails
    \/ CallGetTrailDetails
    \/ CallUnknownTool
    \/ Done

Spec == Init /\ [][Next]_vars

(***************************************************************************)
(* Properties.                                                             *)
(***************************************************************************)
\* the call that has returned is a call of fn
Returned(fn) == pc = "returned" /\ call.fn = fn

\* the fetch failed or an exception was raised outside the card loop
Failed == env.fetch \in FetchFailures \/ env.parse_error

\* C1: search_trails_in_park never raises to its caller, and when the fetch
\* fails or an exception is raised at the top level it returns the empty
\* sequence.
C1_SearchFailureIsEmpty ==
    Returned("search_trails_in_park") =>
        /\ ~ret.raised
        /\ Failed => ret.value = <<>>

\* a listing whose fetch met a transport error has returned
C1_Witness ==
    /\ Returned("search_trails_in_park")
    /\ env.fetch = "connection_error"
    /\ ret = [raised |-> FALSE, value |-> <<>>]

\* C2: get_trail_by_slug never raises to its caller, and when the fetch or
\* the parse fails it returns one record with an empty title, an error
\* description as summary and the requested URL.
C2_DetailFailureIsSentinel ==
    Returned("get_trail_by_slug") =>
        /\ ~ret.raised
        /\ Failed =>
            /\ DOMAIN ret.value = {"title", "summary", "url"}
            /\ ret.value.title = ""
            /\ StartsWith(ret.value.summary, "Error ")
            /\ env.fetch \in FetchFailures => Contains(ret.value.summary, env.fetch)
            /\ ret.value.url = BASE_URL \o "/trail/" \o call.arg

\* a detail request whose parse raised has returned the sentinel
C2_Witness ==
    /\ Returned("get_trail_by_slug")
    /\ env.parse_error
    /\ env.doc # <<>>
    /\ call.arg # ""
    /\ ret.value.title = ""

\* the cards of the page for which a name and a URL can be resolved
ResolvableCards(doc) ==
    {i \in 1..Len(FindCards(doc)) :
        LET card == FindCards(doc)[i]
        IN  /\ NameElem(card) # NoElem
            /\ GetTextStrip(NameElem(card)) # ""
            /\ CardUrl(card, NameElem(card)) # ""}

\* C3: every record search_trails_in_park returns, on the card path and on
\* the anchor path, has a non-empty name and a non-empty url; a card with no
\* resolvable name or url contributes no record.
C3_RecordsHaveNameAndUrl ==
    Returned("search_trails_in_park") =>
        /\ \A i \in 1..Len(ret.value) : ret.value[i].name # "" /\ ret.value[i].url # ""
        /\ (~Failed /\ FindCards(env.doc) # <<>>) =>
               Len(ret.value) = Cardinality(ResolvableCards(env.doc) \ env.raising)

\* a page with two cards, one of them without a link, yielded one record
C3_Witness ==
    /\ Returned("search_trails_in_park")
    /\ ~Failed
    /\ env.raising = {}
    /\ Len(FindCards(env.doc)) = 2
    /\ Cardinality(ResolvableCards(env.doc)) = 1
    /\ Len(ret.value) = 1

\* no title locator of the page yields text
NoTitleText(doc) ==
    /\ GetTextStrip(SelectOne(Nodes(doc), TitleSel1)) = ""
    /\ GetTextStrip(SelectOne(Nodes(doc), TitleSel2)) = ""
    /\ GetTextStrip(SelectOne(Nodes(doc), TitleSel3)) = ""
    /\ GetTextStrip(SelectOne(Nodes(doc), TitleSel4)) = ""

\* C4: the title get_trail_by_slug returns is empty exactly when the fetch
\* or the parse failed; with no title text on the page it is "Trail " + slug;
\* the adapter answers "Trail not found" exactly for failed requests.
C4_EmptyTitleIffFailed ==
    Returned("get_trail_by_slug") =>
        /\ (ret.value.title = "") <=> Failed
        /\ (~Failed /\ NoTitleText(env.doc)) => ret.value.title = "Trail " \o call.arg
        /\ call.via = "tool" => (StartsWith(reply[1], "Trail not found") <=> Failed)

\* a page without any title text was fetched through the adapter
C4_Witness ==
    /\ Returned("get_trail_by_slug")
    /\ call.via = "tool"
    /\ ~Failed
    /\ env.doc # <<>>
    /\ NoTitleText(env.doc)
    /\ reply[1] = "# Trail " \o call.arg

\* C5: a stat that Phase 1 set is returned with its Phase 1 value, whatever
\* the Phase 2 patterns match in the page text.
C5_Phase2KeepsPhase1 ==
    (Returned("get_trail_by_slug") /\ ~Failed) =>
        \A k \in DOMAIN Phase1Stats(env.doc) :
            /\ ret.value.stats[k] = Phase1Stats(env.doc)[k]
            /\ ret.value[k] = Phase1Stats(env.doc)[k]

\* Phase 1 set elevation_gain and the page text has another elevation
C5_Witness ==
    /\ Returned("get_trail_by_slug")
    /\ ~Failed
    /\ "elevation_gain" \in DOMAIN Phase1Stats(env.doc)
    /\ ContainsCI(Phase1Stats(env.doc)["elevation_gain"], "gain")
    /\ LabelledGroup(PageText(env.doc), "Elevation", ElevationBody)
           \notin {"", Phase1Stats(env.doc)["elevation_gain"]}
    /\ ret.value.elevation_gain = Phase1Stats(env.doc)["elevation_gain"]

\* the indices, among the first 20 trail links, of those with a name of more
\* than 3 characters
NamedLinks(doc) ==
    {i \in 1..Len(TrailLinks(doc)) :
        i <= 20 /\ Len(GetTextStrip(TrailLinks(doc)[i])) > 3}

\* the index of the j-th smallest member of a set of indices
Nth(set, j) == CHOOSE i \in set : Cardinality({h \in set : h <= i}) = j

\* C6: with no card on the page, the result is one record per trail link
\* among the first 20 whose text is longer than 3 characters, in document
\* order, each with empty summary, difficulty, length and rating.
C6_AnchorFallback ==
    (Returned("search_trails_in_park") /\ ~Failed /\ FindCards(env.doc) = <<>>) =>
        /\ Len(ret.value) = Cardinality(NamedLinks(env.doc))
        /\ Len(ret.value) <= 20
        /\ \A j \in 1..Len(ret.value) :
              LET link == TrailLinks(env.doc)[Nth(NamedLinks(env.doc), j)]
              IN  /\ ret.value[j].name = GetTextStrip(link)
                  /\ Contains(ret.value[j].url, link.href)
                  /\ ret.value[j].summary = ""
                  /\ ret.value[j].difficulty = ""
                  /\ ret.value[j].length = ""
                  /\ ret.value[j].rating = ""

\* a page with more than 20 trail links, some of them with short names
C6_Witness ==
    /\ Returned("search_trails_in_park")
    /\ ~Failed
    /\ FindCards(env.doc) = <<>>
    /\ Len(TrailLinks(env.doc)) > 20
    /\ Len(ret.value) > 0
    /\ Len(ret.value) < 20

\* C7: a card's summary is a text longer than 20 characters, and it is the
\* empty string when no summary selector yields one.
C7_CardSummaryIsSubstantial ==
    (Returned("search_trails_in_park") /\ ~Failed) =>
        \A i \in 1..Len(ret.value) :
            ret.value[i].summary = "" \/ Len(ret.value[i].summary) > 20

\* the texts of the stat elements, in the order Phase 1 visits them
StatTexts(doc) == [i \in 1..Len(StatElements(doc)) |-> GetTextStrip(StatElements(doc)[i])]

\* C8 as stated: Phase 1 assigns a stat text to elevation_gain only when it
\* contains "ft" or "m" and also, in any case, "gain".
C8_ElevationNeedsGain ==
    (Returned("get_trail_by_slug") /\ ~Failed) =>
        ("elevation_gain" \in DOMAIN Phase1Stats(env.doc) =>
            /\ Contains(ret.value.elevation_gain, "ft") \/ Contains(ret.value.elevation_gain, "m")
            /\ ContainsCI(ret.value.elevation_gain, "gain"))

\* the stat texts Phase 1 takes for an elevation gain
ElevationTexts(doc) ==
    {i \in 1..Len(StatTexts(doc)) :
        LET t == StatTexts(doc)[i]
        IN  /\ ~Contains(t, "mi") /\ ~Contains(t, "km")
            /\ Contains(t, "ft") \/ (Contains(t, "m") /\ ContainsCI(t, "gain"))}

\* C8, amended: Phase 1 assigns to elevation_gain the stat texts without
\* "mi" and "km" that contain "ft", or contain "m" and in any case "gain";
\* the last of them is the value returned, and with none Phase 1 sets nothing.
C8_ElevationFtOrGainedM ==
    (Returned("get_trail_by_slug") /\ ~Failed) =>
        /\ ("elevation_gain" \in DOMAIN Phase1Stats(env.doc)) <=> (ElevationTexts(env.doc) # {})
        /\ ElevationTexts(env.doc) # {} =>
              ret.value.elevation_gain =
                  StatTexts(env.doc)[Nth(ElevationTexts(env.doc),
                                         Cardinality(ElevationTexts(env.doc)))]

\* Phase 1 took a stat text with "ft" and without "gain" for the elevation
C8_Witness ==
    /\ Returned("get_trail_by_slug")
    /\ ~Failed
    /\ "elevation_gain" \in DOMAIN Phase1Stats(env.doc)
    /\ Contains(ret.value.elevation_gain, "ft")
    /\ ~ContainsCI(ret.value.elevation_gain, "gain")

\* the first non-empty text among the title locators, in their order
FirstTitleText(doc) ==
    LET t1 == GetTextStrip(SelectOne(Nodes(doc), TitleSel1))
        t2 == GetTextStrip(SelectOne(Nodes(doc), TitleSel2))
        t3 == GetTextStrip(SelectOne(Nodes(doc), TitleSel3))
        t4 == GetTextStrip(SelectOne(Nodes(doc), TitleSel4))
    IN  IF t1 # "" THEN t1 ELSE IF t2 # "" THEN t2 ELSE IF t3 # "" THEN t3 ELSE t4

\* C9: the title is the text of the first title locator whose element has a
\* non-empty text; an element with an empty text does not stop the search,
\* and only with no such text is the title "Trail " + slug.
C9_FirstNonEmptyTitleWins ==
    (Returned("get_trail_by_slug") /\ ~Failed) =>
        ret.value.title = (IF FirstTitleText(env.doc) # "" THEN FirstTitleText(env.doc)
                           ELSE "Trail " \o call.arg)

\* C10: the summary of a trail page is a text longer than 50 characters or
\* the content of the meta description; it is the empty string when the page
\* has neither.
C10_SummaryIsSubstantial ==
    (Returned("get_trail_by_slug") /\ ~Failed) =>
        \/ Len(ret.value.summary) > 50
        \/ /\ SelectOne(Nodes(env.doc), SummarySel4) # NoElem
           /\ ret.value.summary = SelectOne(Nodes(env.doc), SummarySel4).content
        \/ ret.value.summary = ""

\* the elements of the page the k-th card selector matches, in document order
MatchedBy(doc, k) == Select(Nodes(doc), card_selectors[k])

\* the first card selector, in the fixed order, that matches an element of
\* the page (none when no selector matches)
FirstMatching(doc) ==
    {k \in 1..Len(card_selectors) :
        MatchedBy(doc, k) # <<>> /\ \A h \in 1..(k - 1) : MatchedBy(doc, h) = <<>>}

\* the cards among cards that yield a record: processing does not raise and
\* a name and a url are resolved
YieldingCards(cards, raising) ==
    {i \in 1..Len(cards) : i \notin raising /\ ProcessCard(cards[i]) # <<>>}

\* C11: card discovery is first-match-wins. With no card selector matching,
\* the result is that of the anchor fallback. Otherwise the cards processed
\* are exactly the elements the first matching selector matches: the result
\* is the records of those of them that yield one, in document order, with
\* nothing of a later selector or of the anchor fallback merged in, and it is
\* empty when every card is skipped.
C11_FirstMatchWins ==
    (Returned("search_trails_in_park") /\ ~Failed) =>
        /\ FirstMatching(env.doc) = {} => ret.value = AnchorFallback(env.doc)
        /\ \A k \in FirstMatching(env.doc) :
              /\ Len(ret.value) = Cardinality(YieldingCards(MatchedBy(env.doc, k), env.raising))
              /\ \A j \in 1..Len(ret.value) :
                    ret.value[j] =
                        ProcessCard(MatchedBy(env.doc, k)[
                            Nth(YieldingCards(MatchedBy(env.doc, k), env.raising), j)])[1]

\* the first selector matched a card that is skipped, a later selector
\* matches an element outside that card and the page has named trail links:
\* the result is empty
C11_Witness ==
    /\ Returned("search_trails_in_park")
    /\ ~Failed
    /\ env.raising = {}
    /\ FirstMatching(env.doc) = {1}
    /\ Len(MatchedBy(env.doc, 1)) = 1
    /\ Len(MatchedBy(env.doc, 3)) = 2
    /\ AnchorFallback(env.doc) # <<>>
    /\ ret.value = <<>>

====
